---- MODULE Spec2Model ----
(***************************************************************************)
(* catsof.dev submission function (netlify function "submit"): the        *)
(* untrusted-image ingestion pipeline.                                     *)
(*                                                                         *)
(* Strings that the code inspects character by character (host names, IP   *)
(* literals, content types) are sequences of one-character strings, so     *)
(* that split / trim / toLowerCase / startsWith are computed, not assumed. *)
(***************************************************************************)
EXTENDS Integers, Sequences, FiniteSets, TLC

(* ---------------------------------------------------------------------- *)
(* Program constants                                                       *)
(* ---------------------------------------------------------------------- *)
MAX_IMAGE_BYTES == 8388608

MAX_REDIRECTS == 4

ALLOWED_IMAGE_MIME_TYPES ==
    { <<"i","m","a","g","e","/","j","p","e","g">>,
      <<"i","m","a","g","e","/","p","n","g">>,
      <<"i","m","a","g","e","/","w","e","b","p">>,
      <<"i","m","a","g","e","/","g","i","f">>,
      <<"i","m","a","g","e","/","a","v","i","f">> }

(* ---------------------------------------------------------------------- *)
(* Character-level string helpers (JavaScript String methods)              *)
(* ---------------------------------------------------------------------- *)
Digits == <<"0","1","2","3","4","5","6","7","8","9">>

HexDigits == <<"0","1","2","3","4","5","6","7","8","9","a","b","c","d","e","f">>

UpperChars == {"A","B","C","D","E","F","G","H","I","J","K","L","M",
               "N","O","P","Q","R","S","T","U","V","W","X","Y","Z"}

LowerOf == [c \in UpperChars |->
              CASE c = "A" -> "a" [] c = "B" -> "b" [] c = "C" -> "c" [] c = "D" -> "d"
                [] c = "E" -> "e" [] c = "F" -> "f" [] c = "G" -> "g" [] c = "H" -> "h"
                [] c = "I" -> "i" [] c = "J" -> "j" [] c = "K" -> "k" [] c = "L" -> "l"
                [] c = "M" -> "m" [] c = "N" -> "n" [] c = "O" -> "o" [] c = "P" -> "p"
                [] c = "Q" -> "q" [] c = "R" -> "r" [] c = "S" -> "s" [] c = "T" -> "t"
                [] c = "U" -> "u" [] c = "V" -> "v" [] c = "W" -> "w" [] c = "X" -> "x"
                [] c = "Y" -> "y" [] c = "Z" -> "z"]

\* String.prototype.toLowerCase
ToLowerCase(s) == [i \in 1..Len(s) |-> IF s[i] \in UpperChars THEN LowerOf[s[i]] ELSE s[i]]

\* the white space String.prototype.trim strips (the members the model uses)
WhiteSpace == {" ", "\t"}

RECURSIVE TrimStart(_)
TrimStart(s) == IF s # <<>> /\ Head(s) \in WhiteSpace THEN TrimStart(Tail(s)) ELSE s

RECURSIVE TrimEnd(_)
TrimEnd(s) ==
    IF s # <<>> /\ s[Len(s)] \in WhiteSpace THEN TrimEnd(SubSeq(s, 1, Len(s) - 1)) ELSE s

\* String.prototype.trim
Trim(s) == TrimEnd(TrimStart(s))

\* String.prototype.startsWith
StartsWith(s, p) == Len(s) >= Len(p) /\ SubSeq(s, 1, Len(p)) = p

\* String.prototype.endsWith
EndsWith(s, p) == Len(s) >= Len(p) /\ SubSeq(s, Len(s) - Len(p) + 1, Len(s)) = p

\* index of the first occurrence of character c in s, 0 when absent
IndexOf(s, c) ==
    IF \E i \in 1..Len(s) : s[i] = c
    THEN CHOOSE i \in 1..Len(s) : s[i] = c /\ \A j \in 1..(i - 1) : s[j] # c
    ELSE 0

\* String.prototype.split(c): the sequence of parts
RECURSIVE Split(_, _)
Split(s, c) ==
    LET i == IndexOf(s, c)
    IN  IF i = 0 THEN <<s>>
        ELSE <<SubSeq(s, 1, i - 1)>> \o Split(SubSeq(s, i + 1, Len(s)), c)

DigitValue(ch) == CHOOSE d \in 0..9 : Digits[d + 1] = ch

IsDigit(ch) == \E d \in 1..10 : Digits[d] = ch

IsHexDigit(ch) == \E d \in 1..16 : HexDigits[d] = ch

RECURSIVE DecValue(_)
DecValue(s) == IF s = <<>> THEN 0
               ELSE 10 * DecValue(SubSeq(s, 1, Len(s) - 1)) + DigitValue(s[Len(s)])

RECURSIVE Dec(_)
Dec(n) == IF n < 10 THEN <<Digits[n + 1]>> ELSE Dec(n \div 10) \o <<Digits[(n % 10) + 1]>>

RECURSIVE Hex(_)
Hex(n) == IF n < 16 THEN <<HexDigits[n + 1]>> ELSE Hex(n \div 16) \o <<HexDigits[(n % 16) + 1]>>

NaN == -1

\* Number(piece) for the pieces of a dotted string: "" is 0, decimal digits are
\* their value, anything else is NaN
NumberOf(piece) ==
    IF \A i \in 1..Len(piece) : IsDigit(piece[i]) THEN DecValue(piece) ELSE NaN

(* ---------------------------------------------------------------------- *)
(* IP addresses and their text forms                                       *)
(* ---------------------------------------------------------------------- *)
\* dotted-decimal text of four octets
Ipv4Text(o) == Dec(o[1]) \o <<".">> \o Dec(o[2]) \o <<".">> \o Dec(o[3]) \o <<".">> \o Dec(o[4])

\* length of the run of zero groups of g that starts at i
RECURSIVE ZeroRun(_, _)
ZeroRun(g, i) == IF i > Len(g) \/ g[i] # 0 THEN 0 ELSE 1 + ZeroRun(g, i + 1)

RECURSIVE JoinHex(_, _, _)
JoinHex(g, lo, hi) ==
    IF lo > hi THEN <<>>
    ELSE Hex(g[lo]) \o (IF lo < hi THEN <<":">> \o JoinHex(g, lo + 1, hi) ELSE <<>>)

\* canonical text of eight 16-bit groups (lower-case hex, no leading zeros, the
\* leftmost longest run of two or more zero groups written "::")
Ipv6Text(g) ==
    LET best == IF \E i \in 1..8 : ZeroRun(g, i) >= 2
                THEN CHOOSE i \in 1..8 :
                        /\ ZeroRun(g, i) >= 2
                        /\ \A j \in 1..8 : ZeroRun(g, j) <= ZeroRun(g, i)
                        /\ \A j \in 1..(i - 1) : ZeroRun(g, j) < ZeroRun(g, i)
                ELSE 0
    IN  IF best = 0 THEN JoinHex(g, 1, 8)
        ELSE JoinHex(g, 1, best - 1) \o <<":", ":">> \o JoinHex(g, best + ZeroRun(g, best), 8)

\* An address: four octets or eight groups
AddrText(a) == IF a.t = "v4" THEN Ipv4Text(a.o) ELSE Ipv6Text(a.g)

\* net.isIP: 4 for a dotted quad of decimal octets without leading zeros, 6 for
\* IPv6 text (hex digits and colons only: no brackets), 0 otherwise
netIsIP(s) ==
    LET parts == Split(s, ".")
    IN  IF /\ Len(parts) = 4
           /\ \A k \in 1..4 :
                /\ parts[k] # <<>>
                /\ \A i \in 1..Len(parts[k]) : IsDigit(parts[k][i])
                /\ Len(parts[k]) <= 3
                /\ (Len(parts[k]) > 1 => parts[k][1] # "0")
                /\ DecValue(parts[k]) <= 255
        THEN 4
        ELSE IF /\ IndexOf(s, ":") # 0
                /\ \A i \in 1..Len(s) : IsHexDigit(s[i]) \/ s[i] = ":"
             THEN 6
             ELSE 0

(* ---------------------------------------------------------------------- *)
(* Address classifier                                                      *)
(* ---------------------------------------------------------------------- *)
isPrivateIPv4(ip) ==
    LET parts == [k \in 1..Len(Split(ip, ".")) |-> NumberOf(Split(ip, ".")[k])]
    IN  IF Len(parts) # 4 \/ \E k \in 1..Len(parts) : parts[k] = NaN THEN FALSE
        ELSE IF parts[1] = 10 THEN TRUE
        ELSE IF parts[1] = 127 THEN TRUE
        ELSE IF parts[1] = 169 /\ parts[2] = 254 THEN TRUE
        ELSE IF parts[1] = 172 /\ parts[2] >= 16 /\ parts[2] <= 31 THEN TRUE
        ELSE IF parts[1] = 192 /\ parts[2] = 168 THEN TRUE
        ELSE IF parts[1] = 0 THEN TRUE
        ELSE FALSE

isPrivateIPv6(ip) ==
    LET value == ToLowerCase(ip)
    IN  \/ value = <<":", ":", "1">>
        \/ StartsWith(value, <<"f", "c">>)
        \/ StartsWith(value, <<"f", "d">>)
        \/ StartsWith(value, <<"f", "e", "8", "0", ":">>)

isPrivateIpAddress(ip) ==
    LET version == netIsIP(ip)
    IN  IF version = 4 THEN isPrivateIPv4(ip)
        ELSE IF version = 6 THEN isPrivateIPv6(ip)
        ELSE TRUE

(* ---------------------------------------------------------------------- *)
(* URLs                                                                    *)
(* ---------------------------------------------------------------------- *)
\* A URL string is kept by its parts: scheme, host as written in the authority
\* (an IPv6 literal is written in brackets), and the last path segment.
\* kind "garbage" is a string that new URL() rejects.
Url(scheme, host, path) == [kind |-> "url", scheme |-> scheme, host |-> host, path |-> path]

Garbage == [kind |-> "garbage", scheme |-> "", host |-> <<>>, path |-> <<>>]

V4(o) == [t |-> "v4", o |-> o, g |-> <<>>]

V6(g) == [t |-> "v6", o |-> <<>>, g |-> g]

\* the host of a URL whose host is the IP literal a
LiteralHost(a) == IF a.t = "v4" THEN Ipv4Text(a.o) ELSE <<"[">> \o Ipv6Text(a.g) \o <<"]">>

\* URL.hostname: the serialized host, lower-cased; the serializer keeps the
\* brackets of an IPv6 literal
UrlHostname(u) == ToLowerCase(u.host)

\* URL.toString(): the normalized href
UrlToString(u) == Url(u.scheme, ToLowerCase(u.host), u.path)

SubmissionError(message, statusCode) ==
    [st |-> "throw", name |-> "SubmissionError", message |-> message,
     statusCode |-> statusCode, url |-> Garbage]

\* an exception that is not a SubmissionError
OtherError(name) ==
    [st |-> "throw", name |-> name, message |-> name, statusCode |-> 0, url |-> Garbage]

Return(u) == [st |-> "return", name |-> "", message |-> "", statusCode |-> 0, url |-> u]

NeedLookup == [st |-> "lookup", name |-> "", message |-> "", statusCode |-> 0, url |-> Garbage]

(* ---------------------------------------------------------------------- *)
(* Host-safety validator                                                   *)
(* ---------------------------------------------------------------------- *)
\* assertPublicUrl up to the dns.lookup call
assertPublicUrlSync(u) ==
    IF u.kind # "url" THEN SubmissionError("photoUrl must be a valid absolute URL.", 400)
    ELSE IF u.scheme \notin {"https", "http"}
    THEN SubmissionError("photoUrl must start with http:// or https://.", 400)
    ELSE LET hostname == UrlHostname(u)
         IN  IF \/ hostname = <<"l","o","c","a","l","h","o","s","t">>
                \/ EndsWith(hostname, <<".","l","o","c","a","l">>)
                \/ EndsWith(hostname, <<".","l","o","c","a","l","h","o","s","t">>)
             THEN SubmissionError("photoUrl cannot target local/internal hosts.", 400)
             ELSE IF netIsIP(hostname) # 0
             THEN IF isPrivateIpAddress(hostname)
                  THEN SubmissionError("photoUrl cannot target local/internal hosts.", 400)
                  ELSE Return(UrlToString(u))
             ELSE NeedLookup

\* an assertPublicUrl that lets a host through when the lookup finds nothing
assertPublicUrlRecordsLenient(u, ans) ==
    IF ans.err \/ Len(ans.records) = 0 THEN Return(UrlToString(u))
    ELSE IF \E k \in 1..Len(ans.records) : isPrivateIpAddress(ans.records[k])
    THEN SubmissionError("photoUrl cannot target local/internal hosts.", 400)
    ELSE Return(UrlToString(u))

\* assertPublicUrl from the answer of dns.lookup on: ans.err is a rejected
\* lookup, ans.records the addresses (text) of a fulfilled one
assertPublicUrlRecords(u, ans) ==
    IF ans.err THEN SubmissionError("photoUrl host could not be resolved.", 400)
    ELSE IF Len(ans.records) = 0
    THEN SubmissionError("photoUrl host could not be resolved.", 400)
    ELSE IF \E k \in 1..Len(ans.records) : isPrivateIpAddress(ans.records[k])
    THEN SubmissionError("photoUrl cannot target local/internal hosts.", 400)
    ELSE Return(UrlToString(u))

assertPublicUrl(u, ans) ==
    IF assertPublicUrlSync(u).st = "lookup" THEN assertPublicUrlRecords(u, ans)
    ELSE assertPublicUrlSync(u)

(* ---------------------------------------------------------------------- *)
(* The resolver (environment)                                              *)
(* ---------------------------------------------------------------------- *)
MaxRecords == 2

LookupError == [err |-> TRUE, records |-> <<>>]

Answer(recs) == [err |-> FALSE, records |-> recs]

SeqsUpTo(S, n) == UNION {[1..k -> S] : k \in 0..n}

\* what dns.lookup(hostname, {all: true}) can answer with addresses drawn from
\* addrs: a string that is no host name (it holds "[" or ":") is never found
dnsLookup(hostname, addrs) ==
    IF \E i \in 1..Len(hostname) : hostname[i] \in {"[", "]", ":"}
    THEN {LookupError}
    ELSE {LookupError} \cup {Answer(r) : r \in SeqsUpTo(addrs, MaxRecords)}

(* ---------------------------------------------------------------------- *)
(* MIME policy gate, file names                                            *)
(* ---------------------------------------------------------------------- *)
UnsupportedMime ==
    SubmissionError("Only JPEG, PNG, WEBP, GIF, and AVIF images are allowed.", 400)

\* a gate that does not lower-case
sanitizeImageMimeTypeNoLower(mime) ==
    LET normalized == Trim(Split(mime, ";")[1])
    IN  [ok |-> normalized \in ALLOWED_IMAGE_MIME_TYPES, value |-> normalized]

\* sanitizeImageMimeType: [ok, value]; not ok is the thrown SubmissionError
sanitizeImageMimeType(mime) ==
    LET normalized == ToLowerCase(Trim(Split(mime, ";")[1]))
    IN  [ok |-> normalized \in ALLOWED_IMAGE_MIME_TYPES, value |-> normalized]

extensionFromMime(mime) ==
    LET lowerMime == ToLowerCase(mime)
    IN  CASE lowerMime = <<"i","m","a","g","e","/","j","p","e","g">> -> <<"j","p","g">>
          [] lowerMime = <<"i","m","a","g","e","/","p","n","g">> -> <<"p","n","g">>
          [] lowerMime = <<"i","m","a","g","e","/","w","e","b","p">> -> <<"w","e","b","p">>
          [] lowerMime = <<"i","m","a","g","e","/","g","i","f">> -> <<"g","i","f">>
          [] lowerMime = <<"i","m","a","g","e","/","a","v","i","f">> -> <<"a","v","i","f">>
          [] OTHER -> <<"j","p","g">>

SafeChars == {"a","b","c","d","e","f","g","h","i","j","k","l","m","n","o","p","q","r","s",
              "t","u","v","w","x","y","z","0","1","2","3","4","5","6","7","8","9",
              ".","_","-"} \cup UpperChars

\* path.basename (posix): trailing slashes dropped, then the part after the last "/"
RECURSIVE Basename(_)
Basename(s) ==
    IF s # <<>> /\ s[Len(s)] = "/" THEN Basename(SubSeq(s, 1, Len(s) - 1))
    ELSE LET parts == Split(s, "/") IN parts[Len(parts)]

CatImage == <<"c","a","t","-","i","m","a","g","e">>

\* a safeFilename that keeps every character of the base name
safeFilenameUnreplaced(filename) ==
    LET base == Basename(IF filename = <<>> THEN CatImage ELSE filename)
    IN  IF base = <<>> THEN CatImage ELSE base

\* safeFilename: the base name with every character outside [a-zA-Z0-9._-]
\* replaced by "_"
safeFilename(filename) ==
    LET base == Basename(IF filename = <<>> THEN CatImage ELSE filename)
        normalized == [i \in 1..Len(base) |-> IF base[i] \in SafeChars THEN base[i] ELSE "_"]
    IN  IF normalized = <<>> THEN CatImage ELSE normalized

\* getFilenameFromUrl: u.path is the last segment of the URL's pathname
getFilenameFromUrl(u, mime) ==
    LET fromPath == safeFilename(Basename(u.path))
    IN  IF IndexOf(fromPath, ".") # 0 THEN fromPath
        ELSE fromPath \o <<".">> \o extensionFromMime(mime)

(* ---------------------------------------------------------------------- *)
(* State                                                                   *)
(* ---------------------------------------------------------------------- *)
VARIABLES
    event,              \* the request and process.env, as the handler reads them
    pc,                 \* position of the handler invocation
    response,           \* the handler's return value
    failure,            \* message of the exception that ended the pipeline, "" if none
    currentUrl,         \* fetchImageFromUrl: currentUrl
    redirectCount,      \* fetchImageFromUrl: redirectCount
    timer,              \* the setTimeout of the current hop
    netOp,              \* the origin request / response body of the current hop
    declared,           \* content-length header of the 2xx response being read
    mimeType,           \* fetchImageFromUrl: mimeType
    total,              \* readResponseWithLimit: total
    chunks,             \* readResponseWithLimit: chunks (their byte lengths)
    image,              \* the image handed to uploadToCloudinary
    canonicalPhotoUrl,  \* handler: canonicalPhotoUrl
    record,             \* the record POSTed to the store
    requests,           \* number of origin requests issued
    lastAns,            \* answer of the dns.lookup of the current hop, if any
    resolverUsed,       \* whether dns.lookup was called
    uploads,            \* number of upload requests issued
    storeWrites,        \* number of store POSTs issued
    hUrl, hAns, hOut,   \* host validator applied to one URL and one lookup answer
    mIn, mSite, mOut,   \* MIME gate applied to one content type at one call site
    cRead, cOut         \* cats data function applied to one read of the record store

core == <<pc, response, failure>>

loop == <<currentUrl, redirectCount>>

net == <<timer, netOp>>

body == <<declared, mimeType, total, chunks>>

out == <<image, canonicalPhotoUrl, record>>

counters == <<requests, lastAns, resolverUsed, uploads, storeWrites>>

reads == <<cRead, cOut>>

probes == <<hUrl, hAns, hOut, mIn, mSite, mOut, reads>>

vars == <<event, core, loop, net, body, out, counters, probes>>

(* ---------------------------------------------------------------------- *)
(* Bounded inputs                                                          *)
(* ---------------------------------------------------------------------- *)
MaxChunks == 3

ImagePng == <<"i","m","a","g","e","/","p","n","g">>

ImageGifParam == <<"I","M","A","G","E","/","G","I","F",";"," ","q">>

TextHtml == <<"t","e","x","t","/","h","t","m","l">>

ContentTypes == {ImagePng, ImageGifParam, TextHtml}

PublicV4 == V4(<<93, 184, 216, 34>>)

PrivateV4 == V4(<<10, 1, 2, 3>>)

Loopback6 == V6(<<0, 0, 0, 0, 0, 0, 0, 1>>)

HighLinkLocal6 == V6(<<65215, 0, 0, 0, 0, 0, 0, 1>>)

CdnName == <<"c","d","n",".","e","x">>

Hosts == {LiteralHost(PublicV4), LiteralHost(PrivateV4), LiteralHost(Loopback6), CdnName}

Schemes == {"https", "ftp"}

Paths == {<<>>, <<"c",".","p","n","g">>}

Urls == {Url(sc, h, p) : sc \in Schemes, h \in Hosts, p \in Paths}

Empty == [kind |-> "empty", scheme |-> "", host |-> <<>>, path |-> <<>>]

\* a photoUrl field of white space only (its text is kept in host)
Blank == [kind |-> "text", scheme |-> "", host |-> <<" ", "\t">>, path |-> <<>>]

\* a cleanText that does not trim
cleanTextUntrimmed(value) ==
    IF value.kind = "text" /\ value.host = <<>> THEN Empty ELSE value

\* cleanText: the field as a trimmed string; a URL of the model has no white
\* space around it
cleanText(value) ==
    IF value.kind = "text"
    THEN IF Trim(value.host) = <<>> THEN Empty ELSE [value EXCEPT !.host = Trim(value.host)]
    ELSE value

\* the addresses the resolver may return in the handler model
ResolvedAddrs == {AddrText(PublicV4), AddrText(PrivateV4), AddrText(HighLinkLocal6)}

NoAnswer == [err |-> FALSE, records |-> <<>>]

\* Location headers: none, an absolute URL, a relative path, one new URL() rejects
Locations ==
    {[kind |-> "none", url |-> Garbage]} \cup {[kind |-> "bad", url |-> Garbage]}
    \cup {[kind |-> "abs", url |-> u] : u \in Urls}
    \cup {[kind |-> "rel", url |-> Url("", <<>>, p)] : p \in Paths}

\* content-length headers: absent, not a number, a number
ContentLengths ==
    {[kind |-> "absent", n |-> 0], [kind |-> "nan", n |-> 0]}
    \cup {[kind |-> "num", n |-> n] : n \in {1, MAX_IMAGE_BYTES, MAX_IMAGE_BYTES + 1}}

NoLength == [kind |-> "absent", n |-> 0]

\* origin responses: status, headers, and whether response.body has getReader
OriginResponses ==
    {[status |-> 302, location |-> l, contentLength |-> NoLength,
      contentType |-> <<>>, reader |-> TRUE] : l \in Locations}
    \cup {[status |-> 404, location |-> [kind |-> "none", url |-> Garbage],
           contentLength |-> NoLength, contentType |-> <<>>, reader |-> TRUE]}
    \cup {[status |-> 200, location |-> [kind |-> "none", url |-> Garbage],
           contentLength |-> cl, contentType |-> ct, reader |-> rd] :
             cl \in ContentLengths, ct \in ContentTypes, rd \in BOOLEAN}

ChunkSizes == {1, MAX_IMAGE_BYTES}

\* sizes of a body read whole by arrayBuffer()
WholeSizes == {0, 1, MAX_IMAGE_BYTES, MAX_IMAGE_BYTES + 1}

NoFile == [present |-> FALSE, size |-> 0, type |-> <<>>, name |-> <<>>]

Files ==
    {[present |-> TRUE, size |-> sz, type |-> ty, name |-> nm] :
        sz \in {0, 1, MAX_IMAGE_BYTES, MAX_IMAGE_BYTES + 1},
        ty \in {ImagePng, TextHtml},
        nm \in {<<>>, <<"a","/","b"," ","c",".","p","n","g">>}}

OkEvent ==
    [httpMethod |-> "POST", airtable |-> TRUE, cloudinary |-> TRUE,
     contentType |-> "multipart", parseOk |-> TRUE, website |-> FALSE,
     catName |-> TRUE, humanName |-> TRUE,
     photoUrl |-> Url("https", CdnName, <<>>), file |-> NoFile, acceptJson |-> FALSE]

\* the events of the model: OkEvent with one gate of the handler varied, and
\* every photo source combined with both accept headers
Events ==
    {[OkEvent EXCEPT !.httpMethod = "GET"], [OkEvent EXCEPT !.airtable = FALSE],
     [OkEvent EXCEPT !.cloudinary = FALSE], [OkEvent EXCEPT !.parseOk = FALSE],
     [OkEvent EXCEPT !.catName = FALSE], [OkEvent EXCEPT !.humanName = FALSE]}
    \cup {[OkEvent EXCEPT !.website = TRUE, !.file = f] : f \in Files \cup {NoFile}}
    \cup {[OkEvent EXCEPT !.cloudinary = FALSE, !.file = f] : f \in Files}
    \cup {[OkEvent EXCEPT !.contentType = "json", !.photoUrl = u] :
            u \in Urls \cup {Garbage, Empty, Blank}}
    \cup {[OkEvent EXCEPT !.contentType = "form", !.photoUrl = u] :
            u \in {Empty, Blank, Url("https", CdnName, <<"c",".","p","n","g">>)}}
    \cup {[OkEvent EXCEPT !.photoUrl = u, !.file = f, !.acceptJson = a] :
            u \in {Empty, Url("https", CdnName, <<>>)}, f \in Files \cup {NoFile},
            a \in BOOLEAN}

CanonicalUrls ==
    {"https://res.cloudinary.com/demo/cat.jpg", "https://res.cloudinary.com/demo/cat2.jpg"}

NoImage == [size |-> 0, mimeType |-> <<>>, filename |-> <<>>]

NoRecord == [photoUrl |-> "", status |-> ""]

NoResponse == [statusCode |-> 0, body |-> "", photoUrl |-> ""]

Reply(statusCode, text) == [statusCode |-> statusCode, body |-> text, photoUrl |-> ""]

(* ---------------------------------------------------------------------- *)
(* Initial state                                                           *)
(* ---------------------------------------------------------------------- *)
NoOut == [st |-> "none", name |-> "", message |-> "", statusCode |-> 0, url |-> Garbage]

NoMime == [ok |-> FALSE, value |-> <<"-">>]

NoRead == [configured |-> FALSE, outcome |-> "none", records |-> <<>>]

NoCats == [done |-> FALSE, rows |-> <<>>]

ReadsIdle == cRead = NoRead /\ cOut = NoCats

ProbesIdle ==
    /\ hUrl = Garbage /\ hAns = NoAnswer /\ hOut = NoOut
    /\ mIn = <<>> /\ mSite = "none" /\ mOut = NoMime
    /\ ReadsIdle

PipelineIdle ==
    /\ response = NoResponse /\ failure = ""
    /\ currentUrl = Empty /\ redirectCount = 0
    /\ timer = "none" /\ netOp = "none"
    /\ declared = NoLength /\ mimeType = <<>> /\ total = 0 /\ chunks = <<>>
    /\ image = NoImage /\ canonicalPhotoUrl = "" /\ record = NoRecord
    /\ requests = 0 /\ lastAns = NoAnswer
    /\ resolverUsed = FALSE /\ uploads = 0 /\ storeWrites = 0

Init ==
    /\ event \in Events
    /\ pc = "start"
    /\ PipelineIdle
    /\ ProbesIdle

(* ---------------------------------------------------------------------- *)
(* parseBody                                                               *)
(* ---------------------------------------------------------------------- *)
UploadDot == <<"u","p","l","o","a","d",".">>

\* parseBody: [st, err, hasFile, photoFile]; st = "throw" carries the exception
parseBody(ev) ==
    IF ~ev.parseOk
    THEN [st |-> "throw", err |-> OtherError("parse"), hasFile |-> FALSE, photoFile |-> NoImage]
    ELSE IF ev.contentType = "multipart" /\ ev.file.present /\ ev.file.size # 0
    THEN IF ev.file.size > MAX_IMAGE_BYTES
         THEN [st |-> "throw",
               err |-> SubmissionError("Uploaded image is too large (max 8MB).", 413),
               hasFile |-> FALSE, photoFile |-> NoImage]
         ELSE IF ~sanitizeImageMimeType(ev.file.type).ok
         THEN [st |-> "throw", err |-> UnsupportedMime, hasFile |-> FALSE,
               photoFile |-> NoImage]
         ELSE LET mt == sanitizeImageMimeType(ev.file.type).value
              IN  [st |-> "return", err |-> NoOut, hasFile |-> TRUE,
                   photoFile |->
                     [size |-> ev.file.size, mimeType |-> mt,
                      filename |-> safeFilename(IF ev.file.name = <<>>
                                                THEN UploadDot \o extensionFromMime(mt)
                                                ELSE ev.file.name)]]
    ELSE [st |-> "return", err |-> NoOut, hasFile |-> FALSE, photoFile |-> NoImage]

\* parseBody over the events of the model
parsedBodies == [ev \in Events |-> parseBody(ev)]

(* ---------------------------------------------------------------------- *)
(* Handler                                                                 *)
(* ---------------------------------------------------------------------- *)
\* the handler returns r
Respond(r) == /\ response' = r /\ failure' = "" /\ pc' = "done"

\* the catch around resolveCanonicalPhotoUrl (and the one around parseBody, with
\* its own fallback text)
HandlerCatch(e, fallbackStatus, fallbackText) ==
    /\ response' = IF e.name = "SubmissionError" THEN Reply(e.statusCode, e.message)
                   ELSE Reply(fallbackStatus, fallbackText)
    /\ failure' = e.message
    /\ pc' = "done"

\* a fetchImageFromUrl that starts the hop again when its request fails
PipelineRetries(e) ==
    IF pc = "fetch"
    THEN failure' = e.message /\ response' = response /\ pc' = "loopTop"
    ELSE HandlerCatch(e, 500, "Could not process image input.")

\* an exception leaves resolveCanonicalPhotoUrl and reaches the handler's catch
PipelineThrows(e) == HandlerCatch(e, 500, "Could not process image input.")

\* a resolveCanonicalPhotoUrl that never takes the uploaded file
HasBufferNever(parsed) == FALSE

\* resolveCanonicalPhotoUrl: photoFile && photoFile.buffer && photoFile.buffer.length
HasBuffer(parsed) == parsed.hasFile /\ parsed.photoFile.size # 0

\* a getCloudinaryConfig that never throws
getCloudinaryConfigLenient(ev) == FALSE

\* getCloudinaryConfig throws when the cloud name, the key or the secret is unset
getCloudinaryConfigThrows(ev) == ~ev.cloudinary

\* the handler from its entry to its first network operation
HandlerEntry ==
    /\ pc = "start"
    /\ UNCHANGED <<event, net, body, canonicalPhotoUrl, record, probes>>
    /\ UNCHANGED <<requests, lastAns, resolverUsed, storeWrites>>
    /\ LET parsed == parsedBodies[event]
           quiet == UNCHANGED <<loop, image, uploads>>
       IN  IF event.httpMethod # "POST"
           THEN Respond(Reply(405, "Method Not Allowed")) /\ quiet
           ELSE IF ~event.airtable
           THEN Respond(Reply(500, "Missing Airtable configuration.")) /\ quiet
           ELSE IF parsed.st = "throw"
           THEN HandlerCatch(parsed.err, 400, "Invalid form payload.") /\ quiet
           ELSE IF event.website
           THEN Respond(Reply(303, "")) /\ quiet
           ELSE IF ~event.catName \/ ~event.humanName
           THEN Respond(Reply(400, "catName and humanName are required.")) /\ quiet
           ELSE IF ~parsed.hasFile /\ cleanText(event.photoUrl).kind = "empty"
           THEN Respond(Reply(400, "Provide either photoFile or photoUrl.")) /\ quiet
           ELSE IF getCloudinaryConfigThrows(event)
           THEN PipelineThrows(SubmissionError("Missing Cloudinary configuration.", 500))
                /\ quiet
           ELSE IF HasBuffer(parsed)
           THEN \* resolveCanonicalPhotoUrl: the uploaded file goes to the upload
                /\ image' = parsed.photoFile
                /\ uploads' = uploads + 1
                /\ pc' = "upload"
                /\ UNCHANGED <<response, failure, loop>>
           ELSE IF cleanText(event.photoUrl).kind = "empty"
           THEN PipelineThrows(SubmissionError(
                    "photoUrl is required when no file is uploaded.", 400)) /\ quiet
           ELSE \* fetchImageFromUrl enters its loop
                /\ currentUrl' = cleanText(event.photoUrl)
                /\ redirectCount' = 0
                /\ pc' = "loopTop"
                /\ UNCHANGED <<response, failure, image, uploads>>

(* ---------------------------------------------------------------------- *)
(* fetchImageFromUrl                                                       *)
(* ---------------------------------------------------------------------- *)
\* fetch(currentUrl, {redirect: "manual", signal}) with the timeout armed
IssueFetch(u) ==
    /\ currentUrl' = u
    /\ requests' = requests + 1
    /\ timer' = "armed"
    /\ netOp' = "request"
    /\ pc' = "fetch"
    /\ UNCHANGED <<response, failure, redirectCount>>

TooManyRedirects == SubmissionError("photoUrl has too many redirects.", 400)

\* a loop test that stops one iteration short
LoopConditionOneShort(count) == count < MAX_REDIRECTS

\* the loop test of the for statement
LoopCondition(count) == count <= MAX_REDIRECTS

\* assertPublicUrl up to the dns.lookup call, over the URLs of the model
validatedUrls == [u \in Urls \cup {Garbage, Blank} |-> assertPublicUrlSync(u)]

\* the validator call at the top of an iteration
ValidateHop(u) == validatedUrls[u]

\* loop test, then assertPublicUrl up to its lookup, then the fetch call
LoopTop ==
    /\ pc = "loopTop"
    /\ UNCHANGED <<event, body, out, uploads, storeWrites, probes>>
    /\ IF ~LoopCondition(redirectCount)
       THEN /\ PipelineThrows(TooManyRedirects)
            /\ UNCHANGED <<loop, net, requests, lastAns, resolverUsed>>
       ELSE LET r == ValidateHop(currentUrl)
            IN  CASE r.st = "throw" ->
                       /\ PipelineThrows(r)
                       /\ UNCHANGED <<loop, net, requests, lastAns, resolverUsed>>
                  [] r.st = "return" -> IssueFetch(r.url) /\ UNCHANGED <<lastAns, resolverUsed>>
                  [] r.st = "lookup" ->
                       /\ pc' = "dns"
                       /\ resolverUsed' = TRUE
                       /\ UNCHANGED <<response, failure, loop, net, requests, lastAns>>

\* dns.lookup settles; the rest of assertPublicUrl, then the fetch call
DnsAnswer ==
    /\ pc = "dns"
    /\ UNCHANGED <<event, body, out, resolverUsed, uploads, storeWrites, probes>>
    /\ \E ans \in dnsLookup(UrlHostname(currentUrl), ResolvedAddrs) :
         /\ lastAns' = ans
         /\ LET r == assertPublicUrlRecords(currentUrl, ans)
            IN  IF r.st = "throw"
                THEN /\ PipelineThrows(r)
                     /\ UNCHANGED <<loop, net, requests>>
                ELSE IssueFetch(r.url)

\* new URL(location, currentUrl).toString(); kind "garbage" when it throws
ResolveLocation(loc, cur) ==
    CASE loc.kind = "abs" -> UrlToString(loc.url)
      [] loc.kind = "rel" -> Url(cur.scheme, cur.host, loc.url.path)
      [] OTHER -> Garbage

\* Number(response.headers.get("content-length") || "0")
ContentLengthOf(h) ==
    CASE h.kind = "absent" -> 0
      [] h.kind = "nan" -> NaN
      [] OTHER -> h.n

TooLarge == SubmissionError("Image is too large (max 8MB).", 413)

\* a fetchImageFromUrl that does not look at the declared length
DeclaredTooLargeIgnored(h) == FALSE

\* the declared-length test of fetchImageFromUrl
DeclaredTooLarge(h) == ContentLengthOf(h) > MAX_IMAGE_BYTES

\* fetch() fulfils with a response: the code from the finally block to the next
\* await (the first read of the body), or to the top of the next iteration
FetchResponse ==
    /\ pc = "fetch" /\ netOp = "request"
    /\ UNCHANGED <<event, out, probes>>
    /\ UNCHANGED <<requests, resolverUsed, uploads, storeWrites>>
    /\ lastAns' = NoAnswer
    /\ timer' = "cleared"
    /\ \E r \in OriginResponses :
         IF r.status >= 300 /\ r.status < 400
         THEN IF r.location.kind = "none"
              THEN /\ PipelineThrows(SubmissionError(
                          "photoUrl redirect is missing location.", 400))
                   /\ netOp' = "open"
                   /\ UNCHANGED <<loop, body>>
              ELSE IF ResolveLocation(r.location, currentUrl).kind = "garbage"
              THEN /\ PipelineThrows(OtherError("TypeError"))
                   /\ netOp' = "open"
                   /\ UNCHANGED <<loop, body>>
              ELSE /\ currentUrl' = ResolveLocation(r.location, currentUrl)
                   /\ redirectCount' = redirectCount + 1
                   /\ pc' = "loopTop"
                   /\ netOp' = "open"
                   /\ UNCHANGED <<response, failure, body>>
         ELSE IF ~(r.status >= 200 /\ r.status <= 299)
         THEN /\ PipelineThrows(SubmissionError("photoUrl returned HTTP status.", 400))
              /\ netOp' = "open"
              /\ UNCHANGED <<loop, body>>
         ELSE IF DeclaredTooLarge(r.contentLength)
         THEN /\ PipelineThrows(TooLarge)
              /\ netOp' = "open"
              /\ declared' = r.contentLength
              /\ UNCHANGED <<loop, mimeType, total, chunks>>
         ELSE IF ~sanitizeImageMimeType(r.contentType).ok
         THEN /\ PipelineThrows(UnsupportedMime)
              /\ netOp' = "open"
              /\ declared' = r.contentLength
              /\ UNCHANGED <<loop, mimeType, total, chunks>>
         ELSE \* readResponseWithLimit starts
              /\ declared' = r.contentLength
              /\ mimeType' = sanitizeImageMimeType(r.contentType).value
              /\ total' = 0
              /\ chunks' = <<>>
              /\ netOp' = "open"
              /\ pc' = IF r.reader THEN "read" ELSE "arrayBuffer"
              /\ UNCHANGED <<response, failure, loop>>

\* fetch() rejects for a transport failure
FetchError ==
    /\ pc = "fetch" /\ netOp = "request"
    /\ timer' = "cleared"
    /\ netOp' = "failed"
    /\ PipelineThrows(SubmissionError("Could not fetch photoUrl.", 400))
    /\ UNCHANGED <<event, loop, body, out, counters, probes>>

\* the setTimeout callback: abortController.abort()
TimeoutFires ==
    /\ pc = "fetch" /\ timer = "armed" /\ netOp = "request"
    /\ timer' = "fired"
    /\ netOp' = "aborted"
    /\ UNCHANGED <<event, core, loop, body, out, counters, probes>>

\* fetch() rejects with AbortError
FetchAborted ==
    /\ pc = "fetch" /\ netOp = "aborted"
    /\ PipelineThrows(SubmissionError("Timed out while fetching photoUrl.", 400))
    /\ UNCHANGED <<event, loop, net, body, out, counters, probes>>

(* ---------------------------------------------------------------------- *)
(* readResponseWithLimit                                                   *)
(* ---------------------------------------------------------------------- *)
\* a reader without a ceiling
LimitCrossedUnchecked(count, maxBytes) == FALSE

\* the ceiling test of the streaming loop and of the whole-body fallback
LimitCrossed(count, maxBytes) == count > maxBytes

\* fetchImageFromUrl after readResponseWithLimit returned a buffer of n bytes:
\* the image goes to uploadToCloudinary (the locals of both functions are gone)
BufferRead(n) ==
    IF n = 0
    THEN /\ PipelineThrows(SubmissionError("Fetched image is empty.", 400))
         /\ total' = n
         /\ UNCHANGED <<image, uploads, loop, declared, mimeType, chunks>>
    ELSE /\ image' = [size |-> n, mimeType |-> mimeType,
                      filename |-> getFilenameFromUrl(currentUrl, mimeType)]
         /\ uploads' = uploads + 1
         /\ pc' = "upload"
         /\ currentUrl' = Empty
         /\ declared' = NoLength /\ mimeType' = <<>> /\ total' = 0 /\ chunks' = <<>>
         /\ UNCHANGED <<response, failure, redirectCount>>

\* a reader that buffers the chunk before it tests the ceiling
ChunksAfterReadBuffered(list, n, crossed) == Append(list, n)

\* the chunk list after a read of n bytes: the push comes after the ceiling
\* test, which throws when the ceiling is crossed
ChunksAfterRead(list, n, crossed) == IF crossed THEN list ELSE Append(list, n)

\* reader.read() fulfils with a chunk of n bytes
ReadChunk ==
    /\ pc = "read" /\ netOp = "open"
    /\ Len(chunks) < MaxChunks
    /\ UNCHANGED <<event, loop, timer, declared, mimeType, out, counters, probes>>
    /\ \E n \in ChunkSizes :
         /\ total' = total + n
         /\ chunks' = ChunksAfterRead(chunks, n, LimitCrossed(total + n, MAX_IMAGE_BYTES))
         /\ IF LimitCrossed(total + n, MAX_IMAGE_BYTES)
            THEN /\ netOp' = "cancelled"
                 /\ PipelineThrows(TooLarge)
            ELSE UNCHANGED <<core, netOp>>

\* reader.read() fulfils with done; Buffer.concat(chunks, total) has total bytes
ReadDone ==
    /\ pc = "read" /\ netOp = "open"
    /\ netOp' = "closed"
    /\ BufferRead(total)
    /\ UNCHANGED <<event, timer, canonicalPhotoUrl, record, probes>>
    /\ UNCHANGED <<requests, lastAns, resolverUsed, storeWrites>>

\* reader.read() rejects: the stream failed
ReadError ==
    /\ pc = "read" /\ netOp = "open"
    /\ netOp' = "failed"
    /\ PipelineThrows(OtherError("TypeError"))
    /\ UNCHANGED <<event, loop, timer, body, out, counters, probes>>

\* response.arrayBuffer() fulfils with the whole body of n bytes (no getReader)
ArrayBufferDone ==
    /\ pc = "arrayBuffer" /\ netOp = "open"
    /\ netOp' = "consumed"
    /\ UNCHANGED <<event, timer, canonicalPhotoUrl, record, probes>>
    /\ UNCHANGED <<requests, lastAns, resolverUsed, storeWrites>>
    /\ \E n \in WholeSizes :
         IF LimitCrossed(n, MAX_IMAGE_BYTES)
         THEN /\ PipelineThrows(TooLarge)
              /\ total' = n
              /\ UNCHANGED <<image, uploads, loop, declared, mimeType, chunks>>
         ELSE BufferRead(n)

(* ---------------------------------------------------------------------- *)
(* uploadToCloudinary and the store write                                  *)
(* ---------------------------------------------------------------------- *)
UploadOutcomes == {"ok", "nourl", "rejected", "failed"}

\* an upload step that takes every response as a success
UploadAcceptedAlways(o) == TRUE

\* whether the upload response is taken as a success
UploadAccepted(o) == o = "ok"

UploadError(o) ==
    CASE o = "rejected" -> SubmissionError("Image upload to Cloudinary failed.", 502)
      [] o = "nourl" -> SubmissionError("Cloudinary response missing secure_url.", 502)
      [] OTHER -> OtherError("TypeError")

\* a payload that keeps the submitted photoUrl field instead of the secure_url
payloadOfSubmittedUrl(canonical) == [photoUrl |-> "photoUrl", status |-> "Pending"]

\* the fields of the record the handler posts: "Photo URL" and Status
payload(canonical) == [photoUrl |-> canonical, status |-> "Pending"]

\* the upload request settles; on success the handler builds the payload and
\* issues the store POST
UploadResponse ==
    /\ pc = "upload"
    /\ UNCHANGED <<event, loop, net, body, image, probes>>
    /\ UNCHANGED <<requests, lastAns, resolverUsed, uploads>>
    /\ \E o \in UploadOutcomes :
         IF UploadAccepted(o)
         THEN \E c \in CanonicalUrls :
                /\ canonicalPhotoUrl' = IF o = "ok" THEN c ELSE ""
                /\ record' = payload(IF o = "ok" THEN c ELSE "")
                /\ storeWrites' = storeWrites + 1
                /\ pc' = "store"
                /\ UNCHANGED <<response, failure>>
         ELSE /\ PipelineThrows(UploadError(o))
              /\ UNCHANGED <<canonicalPhotoUrl, record, storeWrites>>

StoreOutcomes == {"ok", "rejected", "failed"}

\* the store POST settles
StoreResponse ==
    /\ pc = "store"
    /\ UNCHANGED <<event, loop, net, body, out, counters, probes>>
    /\ failure' = ""
    /\ pc' = "done"
    /\ \E o \in StoreOutcomes :
         response' =
           CASE o = "rejected" -> Reply(500, "Could not save submission. details")
             [] o = "failed" -> Reply(500, "Could not save submission.")
             [] OTHER -> IF event.acceptJson
                         THEN [statusCode |-> 200, body |-> "ok",
                               photoUrl |-> canonicalPhotoUrl]
                         ELSE Reply(303, "")

(* ---------------------------------------------------------------------- *)
(* Specification of one handler invocation                                 *)
(* ---------------------------------------------------------------------- *)
Next ==
    \/ HandlerEntry
    \/ LoopTop
    \/ DnsAnswer
    \/ FetchResponse
    \/ FetchError
    \/ TimeoutFires
    \/ FetchAborted
    \/ ReadChunk
    \/ ReadDone
    \/ ReadError
    \/ ArrayBufferDone
    \/ UploadResponse
    \/ StoreResponse

Spec == Init /\ [][Next]_vars

\* The event loop runs the handler's own continuations and the timer callback,
\* and the runtime rejects an aborted fetch; the store is taken to answer.
\* Nothing obliges the resolver, the origin or the upload service to answer.
FairSpec ==
    /\ Spec
    /\ WF_vars(HandlerEntry)
    /\ WF_vars(LoopTop)
    /\ WF_vars(TimeoutFires)
    /\ WF_vars(FetchAborted)
    /\ WF_vars(StoreResponse)

(* ---------------------------------------------------------------------- *)
(* Specification of the host validator on one URL                          *)
(* ---------------------------------------------------------------------- *)
\* the literals named by the tests of the validator
NamedPrivate ==
    {V4(<<127, 0, 0, 1>>), V4(<<10, 1, 2, 3>>), V4(<<169, 254, 1, 1>>),
     V4(<<172, 20, 0, 1>>), V4(<<192, 168, 1, 1>>),
     V6(<<0, 0, 0, 0, 0, 0, 0, 1>>), V6(<<64768, 0, 0, 0, 0, 0, 0, 1>>),
     V6(<<65152, 0, 0, 0, 0, 0, 0, 1>>)}

\* 93.184.216.34, 1.1.1.1, 2001:4860:4860::8888
NamedPublic ==
    {PublicV4, V4(<<1, 1, 1, 1>>), V6(<<8193, 18528, 18528, 0, 0, 0, 0, 34952>>)}

\* addresses on both sides of every boundary of the classifier's ranges
RangeV4 ==
    {V4(<<a, b, 0, 1>>) : a \in {0, 1, 9, 10, 11, 126, 127, 128, 169, 172, 192, 255},
                          b \in {0, 15, 16, 31, 32, 167, 168, 169, 253, 254, 255}}

RangeV6 ==
    {V6(<<a, b, 0, 0, 0, 0, 0, c>>) :
        a \in {0, 252, 8193, 64511, 64512, 64768, 65023, 65024, 65151, 65152, 65153,
               65183, 65215, 65216},
        b \in {0, 1}, c \in {0, 1}}

ProbeAddrs == NamedPrivate \cup NamedPublic \cup RangeV4 \cup RangeV6

LookupNames ==
    {CdnName, <<"C","d","N",".","E","x">>}

LocalNames ==
    {<<"l","o","c","a","l","h","o","s","t">>, <<"L","o","c","a","l","H","o","s","t">>,
     <<"a",".","l","o","c","a","l">>, <<"b",".","L","O","C","A","L","H","O","S","T">>}

\* the addresses that appear in lookup answers of more than one record
MixAddrs ==
    {AddrText(a) : a \in {PublicV4, PrivateV4, HighLinkLocal6,
                          V6(<<8193, 18528, 18528, 0, 0, 0, 0, 34952>>),
                          V6(<<65152, 0, 0, 0, 0, 0, 0, 1>>)}}

\* the URLs of the specification
HostUrls ==
    {Url("https", LiteralHost(a), <<>>) : a \in ProbeAddrs}
    \cup {Url(sc, LiteralHost(a), <<>>) : sc \in {"http", "ftp"}, a \in NamedPublic}
    \cup {Url(sc, n, <<>>) : sc \in {"http", "ftp"}, n \in LocalNames}
    \cup {Url(sc, n, <<"c",".","p","n","g">>) : sc \in {"http", "https"}, n \in LookupNames}
    \cup {Garbage}

\* the answers the resolver may give when assertPublicUrl(u) looks u's host up:
\* up to MaxRecords of MixAddrs, or any one address of ProbeAddrs
AnswersFor(u) ==
    IF assertPublicUrlSync(u).st # "lookup" THEN {NoAnswer}
    ELSE IF dnsLookup(UrlHostname(u), MixAddrs) = {LookupError} THEN {LookupError}
    ELSE dnsLookup(UrlHostname(u), MixAddrs) \cup {Answer(<<AddrText(a)>>) : a \in ProbeAddrs}

InitHost ==
    /\ event = OkEvent
    /\ pc = "idle"
    /\ PipelineIdle
    /\ hUrl \in HostUrls
    /\ hAns \in AnswersFor(hUrl)
    /\ hOut = NoOut
    /\ mIn = <<>> /\ mSite = "none" /\ mOut = NoMime
    /\ ReadsIdle

\* assertPublicUrl(hUrl), the resolver answering hAns
HostValidate ==
    /\ pc = "idle" /\ hOut = NoOut
    /\ hOut' = assertPublicUrl(hUrl, hAns)
    /\ UNCHANGED <<event, core, loop, net, body, out, counters, hUrl, hAns, mIn, mSite, mOut, reads>>

NextHost == HostValidate

SpecHost == InitHost /\ [][NextHost]_vars

(* ---------------------------------------------------------------------- *)
(* Specification of the MIME gate on one content type                      *)
(* ---------------------------------------------------------------------- *)
ImageSvg == <<"i","m","a","g","e","/","s","v","g","+","x","m","l">>

\* the five types as the policy lists them, and types outside the list
FiveTypes ==
    {<<"i","m","a","g","e","/","j","p","e","g">>, ImagePng,
     <<"i","m","a","g","e","/","w","e","b","p">>, <<"i","m","a","g","e","/","g","i","f">>,
     <<"i","m","a","g","e","/","a","v","i","f">>}

OtherTypes ==
    {TextHtml, ImageSvg, <<>>, <<"i","m","a","g","e">>,
     <<"i","m","a","g","e","/","p","n","g","x">>, <<"i","m","a","g","e","/"," ","p","n","g">>,
     <<"i","m","a","g","e","/","j","p","g">>, <<"x","i","m","a","g","e","/","g","i","f">>}

UpperOfChar(c) == IF \E u \in UpperChars : LowerOf[u] = c
                  THEN CHOOSE u \in UpperChars : LowerOf[u] = c
                  ELSE c

\* a base type in lower case, in upper case, or with every second letter raised
Cased(b, cs) ==
    CASE cs = "upper" -> [i \in 1..Len(b) |-> UpperOfChar(b[i])]
      [] cs = "mixed" -> [i \in 1..Len(b) |-> IF i % 2 = 1 THEN UpperOfChar(b[i]) ELSE b[i]]
      [] OTHER -> b

Casings == {"lower", "upper", "mixed"}

Leads == {<<>>, <<" ">>, <<"\t", " ">>}

Trails == {<<>>, <<" ">>}

Params == {<<>>, <<";">>, <<";"," ","c","h","a","r","s","e","t","=","u">>, <<";","a",";","b">>}

MimeCompose(b, cs, ld, tr, pm) == ld \o Cased(b, cs) \o tr \o pm

MimeInputs ==
    {MimeCompose(b, cs, ld, tr, pm) :
        b \in FiveTypes \cup OtherTypes, cs \in Casings, ld \in Leads, tr \in Trails,
        pm \in Params}
    \cup {<<";">> \o b : b \in FiveTypes}

InitMime ==
    /\ event = OkEvent
    /\ pc = "idle"
    /\ PipelineIdle
    /\ hUrl = Garbage /\ hAns = NoAnswer /\ hOut = NoOut
    /\ mIn \in MimeInputs
    /\ mSite \in {"header", "file"}
    /\ mOut = NoMime
    /\ ReadsIdle

\* fetchImageFromUrl: the gate on the content-type header of the response
GateHeader ==
    /\ pc = "idle" /\ mSite = "header" /\ mOut = NoMime
    /\ mOut' = [ok |-> sanitizeImageMimeType(mIn).ok,
                value |-> IF sanitizeImageMimeType(mIn).ok
                          THEN sanitizeImageMimeType(mIn).value ELSE <<>>]
    /\ UNCHANGED <<event, core, loop, net, body, out, counters, hUrl, hAns, hOut, mIn, mSite, reads>>

\* parseBody: the gate on the declared type of the uploaded file
GateFile ==
    /\ pc = "idle" /\ mSite = "file" /\ mOut = NoMime
    /\ LET parsed == parseBody([OkEvent EXCEPT !.file =
                        [present |-> TRUE, size |-> 1, type |-> mIn, name |-> <<>>]])
       IN  mOut' = [ok |-> parsed.st = "return",
                    value |-> IF parsed.st = "return" THEN parsed.photoFile.mimeType
                              ELSE <<>>]
    /\ UNCHANGED <<event, core, loop, net, body, out, counters, hUrl, hAns, hOut, mIn, mSite, reads>>

NextMime == GateHeader \/ GateFile

SpecMime == InitMime /\ [][NextMime]_vars

(* ---------------------------------------------------------------------- *)
(* The cats data function (src/_data/cats.js)                              *)
(* ---------------------------------------------------------------------- *)
MaxRows == 3

\* a field the store's answer does not carry
Undefined == "undefined"

Jan == "2024-01-01T00:00:00.000Z"

Feb == "2024-02-01T00:00:00.000Z"

Mar == "2024-03-01T00:00:00.000Z"

\* Date.parse(text): the time stamp (counted in months here), NaN for a text
\* that is no date, the empty text included
DateParse(text) ==
    CASE text = Jan -> 1
      [] text = Feb -> 2
      [] text = Mar -> 3
      [] OTHER -> NaN

\* value || fallback on a text field
OrElse(value, fallback) == IF value = Undefined \/ value = "" THEN fallback ELSE value

\* the map callback, on the fields that the sort and the filter read (the name,
\* human, developerUrl and story fields are carried along in the same way)
toCat(rec) ==
    [id |-> rec.id,
     createdTime |-> OrElse(rec.createdTime, ""),
     photoUrl |-> OrElse(rec.photoUrl, "")]

\* the sort callback: Date.parse(b.createdTime) - Date.parse(a.createdTime)
comparefn(a, b) ==
    [nan |-> DateParse(b.createdTime) = NaN \/ DateParse(a.createdTime) = NaN,
     v |-> DateParse(b.createdTime) - DateParse(a.createdTime)]

\* Array.prototype.sort calling the callback: a NaN result counts as +0
SortCompare(x, y) == IF comparefn(x, y).nan THEN 0 ELSE comparefn(x, y).v

RECURSIVE RunEnd(_, _, _)
\* the last index of the run that starts the array and reaches at least idx - 1
RunEnd(work, idx, isDescending) ==
    IF idx > Len(work) THEN Len(work)
    ELSE LET order == SortCompare(work[idx], work[idx - 1])
         IN  IF (isDescending /\ order >= 0) \/ (~isDescending /\ order < 0)
             THEN idx - 1
             ELSE RunEnd(work, idx + 1, isDescending)

Reverse(s) == [i \in 1..Len(s) |-> s[Len(s) + 1 - i]]

\* the sort's first pass: the length of the initial run, reversed in place when
\* it is strictly descending
CountAndMakeRun(work) ==
    LET isDescending == SortCompare(work[2], work[1]) < 0
        n == RunEnd(work, 3, isDescending)
    IN  [runLength |-> n,
         work |-> IF isDescending
                  THEN Reverse(SubSeq(work, 1, n)) \o SubSeq(work, n + 1, Len(work))
                  ELSE work]

RECURSIVE InsertionPoint(_, _, _, _)
\* the binary search of the insertion sort in work[left .. right - 1]
InsertionPoint(work, pivot, left, right) ==
    IF left >= right THEN left
    ELSE LET mid == left + ((right - left) \div 2)
         IN  IF SortCompare(pivot, work[mid]) < 0
             THEN InsertionPoint(work, pivot, left, mid)
             ELSE InsertionPoint(work, pivot, mid + 1, right)

RECURSIVE BinaryInsertionSort(_, _)
\* the elements from start on are inserted, one by one, into the sorted prefix
BinaryInsertionSort(work, start) ==
    IF start > Len(work) THEN work
    ELSE LET left == InsertionPoint(work, work[start], 1, start)
         IN  BinaryInsertionSort(
                 SubSeq(work, 1, left - 1) \o <<work[start]>>
                     \o SubSeq(work, left, start - 1)
                     \o SubSeq(work, start + 1, Len(work)),
                 start + 1)

\* Array.prototype.sort of the runtime on an array shorter than its minimal
\* merge run: one run is found and the rest is inserted into it
ArraySort(list) ==
    IF Len(list) < 2 THEN list
    ELSE BinaryInsertionSort(CountAndMakeRun(list).work, CountAndMakeRun(list).runLength + 1)

\* Boolean(cat.photoUrl)
HasPhoto(cat) == cat.photoUrl # ""

\* (data.records || []).map(...).sort(...).filter(...)
CatsOf(records) == SelectSeq(ArraySort([i \in 1..Len(records) |-> toCat(records[i])]), HasPhoto)

\* the data function on one read of the store
catsData(read) ==
    IF ~read.configured THEN <<>>
    ELSE CASE read.outcome = "throws" -> <<>>
           [] read.outcome = "notok" -> <<>>
           [] read.outcome = "norecords" -> CatsOf(<<>>)
           [] OTHER -> CatsOf(read.records)

RawTimes == {Undefined, Jan, Feb, Mar}

RawPhotos == {Undefined, "https://res.cloudinary.com/demo/cat.jpg"}

\* the record lists of an answer: up to MaxRows records, their ids distinct
RecordLists ==
    UNION {{[i \in 1..k |-> [id |-> i, createdTime |-> f[i][1], photoUrl |-> f[i][2]]] :
               f \in [1..k -> RawTimes \X RawPhotos]} : k \in 0..MaxRows}

OneRecord == <<[id |-> 1, createdTime |-> Jan, photoUrl |-> "https://res.cloudinary.com/demo/cat.jpg"]>>

\* the reads: token or base id missing, a fetch that throws, a response that is
\* not ok, an answer without records, an answer with a record list
CatsReads ==
    {[configured |-> FALSE, outcome |-> "ok", records |-> OneRecord]}
    \cup {[configured |-> TRUE, outcome |-> o, records |-> OneRecord] :
             o \in {"throws", "notok", "norecords"}}
    \cup {[configured |-> TRUE, outcome |-> "ok", records |-> r] : r \in RecordLists}

InitCats ==
    /\ event = OkEvent
    /\ pc = "idle"
    /\ PipelineIdle
    /\ hUrl = Garbage /\ hAns = NoAnswer /\ hOut = NoOut
    /\ mIn = <<>> /\ mSite = "none" /\ mOut = NoMime
    /\ cRead \in CatsReads
    /\ cOut = NoCats

\* one build-time call of the data function
CatsData ==
    /\ pc = "idle" /\ cRead # NoRead /\ ~cOut.done
    /\ cOut' = [done |-> TRUE, rows |-> catsData(cRead)]
    /\ UNCHANGED <<event, core, loop, net, body, out, counters>>
    /\ UNCHANGED <<hUrl, hAns, hOut, mIn, mSite, mOut, cRead>>

NextCats == CatsData

SpecCats == InitCats /\ [][NextCats]_vars

(* ---------------------------------------------------------------------- *)
(* Properties of the host validator                                        *)
(* ---------------------------------------------------------------------- *)
\* the private ranges: 10/8, 127/8, 169.254/16, 172.16/12, 192.168/16, 0/8,
\* ::1, fc00::/7, fe80::/10
InPrivateRange(a) ==
    IF a.t = "v4"
    THEN \/ a.o[1] = 10
         \/ a.o[1] = 127
         \/ a.o[1] = 169 /\ a.o[2] = 254
         \/ a.o[1] = 172 /\ a.o[2] \div 16 = 1
         \/ a.o[1] = 192 /\ a.o[2] = 168
         \/ a.o[1] = 0
    ELSE \/ a.g = <<0, 0, 0, 0, 0, 0, 0, 1>>
         \/ a.g[1] \div 512 = 126
         \/ a.g[1] \div 64 = 1018

PrivateTexts == {AddrText(a) : a \in {x \in ProbeAddrs : InPrivateRange(x)}}

HttpUrl(u) == u.kind = "url" /\ u.scheme \in {"http", "https"}

\* u's host is a name that the validator has to resolve
ResolvedName(u) == HttpUrl(u) /\ ToLowerCase(u.host) \in {ToLowerCase(n) : n \in LookupNames}

Rejected(o) == o.st = "throw" /\ o.name = "SubmissionError" /\ o.statusCode = 400

\* C3: for a host name that is no IP literal the validator fails when any
\* resolved address, at any position of the answer, is private, and returns the
\* normalized URL only when every resolved address is public.
C3_AnyPrivateRecordRejects ==
    (hOut.st # "none" /\ ResolvedName(hUrl) /\ ~hAns.err /\ Len(hAns.records) > 0) =>
        /\ (\E k \in 1..Len(hAns.records) : hAns.records[k] \in PrivateTexts)
              => Rejected(hOut)
        /\ hOut.st = "return" =>
              /\ \A k \in 1..Len(hAns.records) : hAns.records[k] \notin PrivateTexts
              /\ hOut = Return(UrlToString(hUrl))

\* C3 with "private" read as "classified private by isPrivateIpAddress": the
\* part of C3 that is about the loop over the records
C3_AnyClassifiedRecordRejects ==
    (hOut.st # "none" /\ ResolvedName(hUrl) /\ ~hAns.err /\ Len(hAns.records) > 0) =>
        IF \E k \in 1..Len(hAns.records) : isPrivateIpAddress(hAns.records[k])
        THEN Rejected(hOut)
        ELSE hOut = Return(UrlToString(hUrl))

\* C4: a URL whose host is one of the named private literals is rejected; a URL
\* whose host is a public IP literal is accepted and its normalized form returned.
C4_NamedLiterals ==
    (hOut.st # "none" /\ HttpUrl(hUrl)) =>
        /\ \A a \in NamedPrivate : hUrl.host = LiteralHost(a) => Rejected(hOut)
        /\ \A a \in NamedPublic :
              hUrl.host = LiteralHost(a) => hOut = Return(UrlToString(hUrl))

\* C5: the classifier marks private every address of every listed range, and
\* every such address, as the literal host or as a resolved address, makes the
\* validator fail.
C5_ListedRangesRejected ==
    hOut.st # "none" =>
        \A a \in ProbeAddrs :
            InPrivateRange(a) =>
                /\ (HttpUrl(hUrl) /\ hUrl.host = LiteralHost(a)) => Rejected(hOut)
                /\ (/\ ResolvedName(hUrl) /\ ~hAns.err
                    /\ \E k \in 1..Len(hAns.records) : hAns.records[k] = AddrText(a))
                   => (isPrivateIpAddress(AddrText(a)) /\ Rejected(hOut))

(* ---------------------------------------------------------------------- *)
(* Properties of the MIME gate                                             *)
(* ---------------------------------------------------------------------- *)
\* C10: at both call sites the gate accepts a content type exactly when what
\* precedes its first ";", trimmed and lower-cased, is one of the five listed
\* types, and it then returns that type in its canonical lower-case form.
C10_MimeGateExact ==
    mOut # NoMime =>
        /\ \A b \in FiveTypes \cup OtherTypes, cs \in Casings, ld \in Leads,
              tr \in Trails, pm \in Params :
              mIn = MimeCompose(b, cs, ld, tr, pm) =>
                  /\ mOut.ok <=> b \in FiveTypes
                  /\ mOut.ok => mOut.value = b
        /\ (mIn # <<>> /\ mIn[1] = ";") => ~mOut.ok

\* an upper-case type with white space and a parameter passed the file gate
C10_NormalizedAccepted ==
    /\ mOut.ok /\ mSite = "file" /\ mOut.value = ImagePng
    /\ mIn = MimeCompose(ImagePng, "upper", <<"\t", " ">>, <<" ">>, <<";","a",";","b">>)

(* ---------------------------------------------------------------------- *)
(* Properties of the handler invocation                                    *)
(* ---------------------------------------------------------------------- *)
LocalHostNames ==
    {h \in Hosts : \/ ToLowerCase(h) = <<"l","o","c","a","l","h","o","s","t">>
                   \/ EndsWith(ToLowerCase(h), <<".","l","o","c","a","l">>)
                   \/ EndsWith(ToLowerCase(h), <<".","l","o","c","a","l","h","o","s","t">>)}

PrivateLiteralHosts == {LiteralHost(a) : a \in {x \in ProbeAddrs : InPrivateRange(x)}}

\* u, resolved to ans, is a private, loopback or link-local target
PrivateTarget(u, ans) ==
    \/ u.host \in PrivateLiteralHosts \cup LocalHostNames
    \/ \E k \in 1..Len(ans.records) : ans.records[k] \in PrivateTexts

\* C1: every origin request is for a URL that assertPublicUrl returned in the
\* same iteration, and no request goes to a private, loopback or link-local
\* target, on hop 0 or after a redirect.
C1_NoRequestToUnsafeTarget ==
    pc = "fetch" =>
        /\ assertPublicUrl(currentUrl, lastAns) = Return(currentUrl)
        /\ ~PrivateTarget(currentUrl, lastAns)

\* the part of C1 that is about the order of validation and request: the URL
\* of the request in flight is one the validator returns for this hop's lookup
C1_ValidatedInSameIteration ==
    pc = "fetch" =>
        /\ assertPublicUrl(currentUrl, lastAns) = Return(currentUrl)
        /\ requests = redirectCount + 1
        /\ (assertPublicUrlSync(currentUrl).st = "lookup" => resolverUsed)

\* C2: the store POST is issued only with a canonical URL that the upload
\* returned, and an invocation that ends without a canonical URL (any failure
\* before or in the upload) has issued no store POST.
C2_StoreWriteOnlyAfterUpload ==
    /\ storeWrites <= 1
    /\ storeWrites > 0 =>
          /\ canonicalPhotoUrl \in CanonicalUrls
          /\ record = [photoUrl |-> canonicalPhotoUrl, status |-> "Pending"]
          /\ uploads = 1
          /\ failure = ""
          /\ pc \in {"store", "done"}
    /\ (pc = "done" /\ (failure # "" \/ canonicalPhotoUrl = "")) =>
          (storeWrites = 0 /\ record = NoRecord)

\* the store POST is in flight after a remote fetch and an upload
C2_StoreWriteIssued ==
    pc = "store" /\ storeWrites = 1 /\ requests > 0 /\ canonicalPhotoUrl \in CanonicalUrls

TooManyText == "photoUrl has too many redirects."

\* C6: at most MAX_REDIRECTS + 1 requests are issued; the too-many-redirects
\* error is returned exactly when MAX_REDIRECTS + 1 responses in a row were
\* redirects, so MAX_REDIRECTS redirects followed by a 2xx image are followed.
C6_RedirectBudget ==
    /\ requests <= MAX_REDIRECTS + 1
    /\ redirectCount <= MAX_REDIRECTS + 1
    /\ (pc = "done" /\ redirectCount = MAX_REDIRECTS + 1) =>
          (failure = TooManyText /\ response = Reply(400, TooManyText))
    /\ failure = TooManyText =>
          (redirectCount = MAX_REDIRECTS + 1 /\ requests = MAX_REDIRECTS + 1)
    /\ (pc \in {"read", "arrayBuffer", "upload", "store"} /\ requests > 0) =>
          requests = redirectCount + 1

\* MAX_REDIRECTS redirects, then a 2xx image that went to the upload
C6_FourRedirectsThenImage ==
    /\ pc = "upload" /\ redirectCount = MAX_REDIRECTS /\ requests = MAX_REDIRECTS + 1
    /\ image.size > 0

\* C7: a 2xx body of an allowed type that streams more than MAX_IMAGE_BYTES ends
\* with the 413 too-large response whatever content-length said, and no image
\* of more than MAX_IMAGE_BYTES is ever produced.
C7_StreamedBodyCeiling ==
    /\ image.size <= MAX_IMAGE_BYTES
    /\ total > MAX_IMAGE_BYTES =>
          /\ pc = "done"
          /\ response = Reply(413, "Image is too large (max 8MB).")
          /\ image = NoImage /\ uploads = 0 /\ storeWrites = 0
    /\ pc \in {"read", "arrayBuffer"} => total <= MAX_IMAGE_BYTES

\* a streamed body crossed the ceiling under an understated content-length
C7_UnderstatedLength ==
    /\ total > MAX_IMAGE_BYTES /\ declared = [kind |-> "num", n |-> 1]
    /\ netOp = "cancelled" /\ response.statusCode = 413

\* C8: when the fetch fails for the byte ceiling (declared or streamed) or for
\* the timeout, the request or the response body has been cancelled: it is not
\* left open.
C8_CancelledOnCeilingOrTimeout ==
    (/\ pc = "done"
     /\ failure \in {"Image is too large (max 8MB).", "Timed out while fetching photoUrl."})
        => netOp \in {"cancelled", "aborted", "consumed"}

\* C9: every handler invocation eventually returns a response, whatever the
\* resolver, the origin and the upload service do.
C9_HandlerEventuallyReturns == <>(pc = "done")

(* ---------------------------------------------------------------------- *)
(* Properties of the handler's gates                                       *)
(* ---------------------------------------------------------------------- *)
\* a POST with the store configured and a payload that parses
WellFormedPost == event.httpMethod = "POST" /\ event.airtable /\ event.parseOk

\* C11: a submission whose honeypot field is non-empty ends with the 303
\* redirect and without a request, an upload or a store write, whatever file
\* it carries.
C11_HoneypotSilentRedirect ==
    (WellFormedPost /\ event.website /\ pc = "done") =>
        /\ response = Reply(303, "")
        /\ requests = 0 /\ ~resolverUsed /\ uploads = 0 /\ storeWrites = 0

\* the part of C11 about side effects: a honeypot submission never reaches the
\* network, the upload or the store
C11_HoneypotNoSideEffects ==
    (WellFormedPost /\ event.website) =>
        /\ pc \in {"start", "done"}
        /\ requests = 0 /\ ~resolverUsed /\ uploads = 0 /\ storeWrites = 0

ValidationTexts ==
    {"photoUrl must be a valid absolute URL.",
     "photoUrl must start with http:// or https://.",
     "photoUrl cannot target local/internal hosts.",
     "photoUrl host could not be resolved.",
     "photoUrl has too many redirects.",
     "photoUrl returned HTTP status.",
     "Could not fetch photoUrl.",
     "Timed out while fetching photoUrl.",
     "Fetched image is empty."}

TooLargeTexts == {"Uploaded image is too large (max 8MB).", "Image is too large (max 8MB)."}

UploadFailureTexts ==
    {"Image upload to Cloudinary failed.", "Cloudinary response missing secure_url."}

\* the status codes of C12 for the failure kinds other than the MIME gate's
StatusOfOtherKinds ==
    /\ failure \in ValidationTexts => response.statusCode = 400
    /\ failure \in TooLargeTexts => response.statusCode = 413
    /\ failure \in UploadFailureTexts => response.statusCode = 502
    /\ failure = "Missing Cloudinary configuration." => response.statusCode = 500
    /\ failure = "TypeError" => response.statusCode = 500

\* C12: every error response carries the status code of its failure kind: 400
\* validation, 413 too large, 415 MIME gate rejection, 500 configuration or
\* upstream, 502 upload failure.
C12_StatusMatchesFailureKind ==
    (pc = "done" /\ failure # "") =>
        /\ StatusOfOtherKinds
        /\ failure = UnsupportedMime.message => response.statusCode = 415

\* the part of C12 that is not about the MIME gate
C12_StatusOfOtherKinds == (pc = "done" /\ failure # "") => StatusOfOtherKinds

\* the submission has a photoFile with bytes
HasPhotoFile ==
    event.contentType = "multipart" /\ event.file.present /\ event.file.size # 0

\* the submission has a photoUrl that is not empty after trimming
HasPhotoUrl ==
    ~(event.photoUrl.kind = "empty"
      \/ (event.photoUrl.kind = "text" /\ \A i \in 1..Len(event.photoUrl.host) :
                                             event.photoUrl.host[i] \in WhiteSpace))

\* C13: a submission with neither a photoFile with bytes nor a photoUrl that is
\* non-empty after trimming ends with the 400 missing-photo-source response,
\* and without a lookup, a request, an upload or a store write.
C13_MissingPhotoSource ==
    (/\ WellFormedPost /\ ~event.website /\ event.catName /\ event.humanName
     /\ ~HasPhotoFile /\ ~HasPhotoUrl) =>
        /\ pc \in {"start", "done"}
        /\ pc = "done" => response = Reply(400, "Provide either photoFile or photoUrl.")
        /\ requests = 0 /\ ~resolverUsed /\ uploads = 0 /\ storeWrites = 0

\* a submission whose photoUrl is white space only was refused
C13_BlankUrlRefused ==
    /\ pc = "done" /\ event.photoUrl = Blank /\ ~HasPhotoFile
    /\ response.statusCode = 400

(* ---------------------------------------------------------------------- *)
(* Properties of the image and of the two source paths                     *)
(* ---------------------------------------------------------------------- *)
\* C14: every image handed to uploadToCloudinary, from an uploaded file or from
\* a remote fetch, has between 1 and MAX_IMAGE_BYTES bytes, one of the five
\* allowed types as its mimeType, and a filename of characters [A-Za-z0-9._-].
C14_UploadedImageWellFormed ==
    uploads > 0 =>
        /\ image.size > 0 /\ image.size <= MAX_IMAGE_BYTES
        /\ image.mimeType \in ALLOWED_IMAGE_MIME_TYPES
        /\ \A i \in 1..Len(image.filename) : image.filename[i] \in SafeChars
        /\ image.filename # <<>>

\* an uploaded file whose name held a space and a directory went to the upload
C14_RenamedFileUploaded ==
    /\ pc = "upload" /\ requests = 0
    /\ event.file.name = <<"a","/","b"," ","c",".","p","n","g">>
    /\ image.filename = <<"b","_","c",".","p","n","g">>
    /\ image.size = MAX_IMAGE_BYTES

\* C15: a submission with an uploaded file that has bytes never uses the
\* resolver or the origin, even with a photoUrl beside the file; any other
\* submission reaches the upload only through the remote fetch; one upload at
\* most is attempted.
C15_ExactlyOneSourcePath ==
    /\ parsedBodies[event].hasFile =>
          /\ requests = 0 /\ ~resolverUsed
          /\ pc \in {"start", "upload", "store", "done"}
    /\ (~parsedBodies[event].hasFile /\ uploads > 0) => requests > 0
    /\ uploads <= 1

\* a file was uploaded although the submission also carried a photoUrl
C15_FileWinsOverUrl ==
    /\ pc = "store" /\ uploads = 1 /\ requests = 0 /\ ~resolverUsed
    /\ event.photoUrl.kind = "url" /\ parsedBodies[event].hasFile

\* C16: nothing is retried. Every request after the first follows a redirect
\* response, one upload and one store write at most are issued, and a failure
\* of the fetch or of the upload ends the invocation with an error response.
C16_NoRetry ==
    /\ requests <= redirectCount + 1
    /\ uploads <= 1 /\ storeWrites <= 1
    /\ failure # "" =>
          /\ pc = "done" /\ response.statusCode >= 400
          /\ storeWrites = 0

\* the second request of a chain failed in transport and ended the invocation
C16_FailedAfterRedirect ==
    /\ pc = "done" /\ failure = "Could not fetch photoUrl."
    /\ requests = 2 /\ redirectCount = 1 /\ uploads = 0

(* ---------------------------------------------------------------------- *)
(* Properties of the stored record and of the resolver                     *)
(* ---------------------------------------------------------------------- *)
\* C17: every record posted to the store carries, as its Photo URL, the
\* secure_url the upload of this submission returned (one of the hosting
\* service's URLs, never the submitted photoUrl) and the Status "Pending"; a
\* JSON success response returns that same URL, and no other response returns a
\* photo URL
C17_RecordIsCanonicalPending ==
    /\ storeWrites = 0 => record = NoRecord
    /\ storeWrites > 0 =>
          /\ canonicalPhotoUrl \in CanonicalUrls
          /\ record.photoUrl = canonicalPhotoUrl
          /\ record.status = "Pending"
    /\ response.statusCode = 200 =>
          /\ storeWrites = 1
          /\ response.photoUrl = record.photoUrl
    /\ response.statusCode # 200 => response.photoUrl = ""

\* a submission by URL was fetched, uploaded and stored, and the JSON response
\* returns the second of the hosting service's URLs
C17_JsonSuccessFromUrl ==
    /\ pc = "done" /\ response.statusCode = 200
    /\ cleanText(event.photoUrl).kind = "url" /\ requests > 0
    /\ record = [photoUrl |-> "https://res.cloudinary.com/demo/cat2.jpg", status |-> "Pending"]
    /\ response.photoUrl = "https://res.cloudinary.com/demo/cat2.jpg"

UnresolvableText == "photoUrl host could not be resolved."

\* the lookup that settles in this step is rejected or finds no address
LookupFindsNothing == pc = "dns" /\ lastAns' \in {LookupError, Answer(<<>>)}

\* C18: when dns.lookup rejects or answers with no records, assertPublicUrl
\* throws "photoUrl host could not be resolved." and returns no URL: the
\* handler answers 400 with that text and the hop issues no request; that
\* error is reported in no other case
C18_UnresolvableHostFails ==
    /\ [][LookupFindsNothing =>
             /\ pc' = "done"
             /\ failure' = UnresolvableText
             /\ response' = Reply(400, UnresolvableText)
             /\ requests' = requests /\ netOp' = netOp
             /\ currentUrl' = currentUrl]_vars
    /\ [](failure = UnresolvableText =>
             /\ pc = "done" /\ lastAns \in {LookupError, Answer(<<>>)}
             /\ requests = redirectCount /\ netOp # "request"
             /\ uploads = 0 /\ storeWrites = 0)

\* the target of a redirect could not be resolved: the resolver answered with
\* no records at the second hop, after the first hop's request
C18_RedirectTargetUnresolved ==
    /\ pc = "done" /\ lastAns = Answer(<<>>)
    /\ redirectCount = 1 /\ requests = 1
    /\ failure = UnresolvableText

\* the resolver rejected the lookup of the submitted URL's host
C18_LookupRejected ==
    /\ pc = "done" /\ lastAns = LookupError
    /\ redirectCount = 0 /\ requests = 0
    /\ failure = UnresolvableText

(* ---------------------------------------------------------------------- *)
(* Properties of the cats data function                                    *)
(* ---------------------------------------------------------------------- *)
\* the read reached the record list of the store's answer
ListRead == cRead.configured /\ cRead.outcome = "ok"

\* the rows returned are the records with a photo URL, each once, as mapped
C19_RowsWithPhoto ==
    (cOut.done /\ ListRead) =>
        /\ {cOut.rows[i].id : i \in 1..Len(cOut.rows)}
             = {i \in 1..Len(cRead.records) : cRead.records[i].photoUrl \notin {Undefined, ""}}
        /\ \A i, j \in 1..Len(cOut.rows) : cOut.rows[i].id = cOut.rows[j].id => i = j
        /\ \A i \in 1..Len(cOut.rows) : cOut.rows[i] = toCat(cRead.records[cOut.rows[i].id])

\* without configuration, or when the read fails, the list is empty
C19_EmptyWithoutRead ==
    (cOut.done /\ (~cRead.configured \/ cRead.outcome \in {"throws", "notok"})) =>
        cOut.rows = <<>>

\* of two returned rows that both have a creation time, the newer comes first
NewestFirst ==
    \A i, j \in 1..Len(cOut.rows) :
        (/\ i < j
         /\ DateParse(cOut.rows[i].createdTime) # NaN
         /\ DateParse(cOut.rows[j].createdTime) # NaN)
            => DateParse(cOut.rows[i].createdTime) >= DateParse(cOut.rows[j].createdTime)

\* C19: for every record list read, the data function returns exactly the rows
\* with a non-empty photo URL, newest first by creation time (also when some
\* rows have no creation time), and the empty list when configuration is
\* missing or the read fails
C19_CatsReadContract ==
    /\ C19_RowsWithPhoto
    /\ C19_EmptyWithoutRead
    /\ cOut.done => NewestFirst

\* the same order when every record read has a creation time
C19_NewestFirstWhenAllTimed ==
    (cOut.done /\ ListRead
        /\ \A i \in 1..Len(cRead.records) : cRead.records[i].createdTime # Undefined)
    => NewestFirst

\* three rows with photos were read and returned, the first and the last timed
C19_ThreeRowsOneUntimed ==
    /\ cOut.done /\ ListRead /\ Len(cOut.rows) = 3
    /\ cRead.records[2].createdTime = Undefined
    /\ cRead.records[1].createdTime # Undefined /\ cRead.records[3].createdTime # Undefined

(* ---------------------------------------------------------------------- *)
(* Properties of the streaming reader                                      *)
(* ---------------------------------------------------------------------- *)
RECURSIVE ByteLength(_)
\* the bytes held by a chunk list
ByteLength(list) == IF list = <<>> THEN 0 ELSE Head(list) + ByteLength(Tail(list))

TooLargeText == "Image is too large (max 8MB)."

\* C20: in the streaming loop of readResponseWithLimit the chunk list never
\* holds more than maxBytes (the chunk that crosses the ceiling is not pushed);
\* in the very step in which the running total exceeds maxBytes the reader is
\* cancelled and the call throws the too-large error, and no read follows a
\* cancellation; when the stream ends within the ceiling the buffer handed on
\* has the length of the chunks read, summed
C20_StreamingReader ==
    /\ [](ByteLength(chunks) <= MAX_IMAGE_BYTES)
    /\ [](pc = "read" => total = ByteLength(chunks))
    /\ [][(pc = "read" /\ total' > MAX_IMAGE_BYTES) =>
             /\ chunks' = chunks
             /\ netOp' = "cancelled"
             /\ pc' = "done" /\ failure' = TooLargeText
             /\ response' = Reply(413, TooLargeText)]_vars
    /\ [][netOp = "cancelled" => UNCHANGED <<total, chunks, netOp>>]_vars
    /\ [][(pc = "read" /\ pc' = "upload") =>
             /\ netOp' = "closed"
             /\ image'.size = ByteLength(chunks)
             /\ ByteLength(chunks) <= MAX_IMAGE_BYTES]_vars

\* a first chunk was kept and the second one crossed the ceiling
C20_CrossedAfterKeptChunk ==
    /\ pc = "done" /\ failure = TooLargeText
    /\ chunks = <<1>> /\ total = MAX_IMAGE_BYTES + 1
    /\ netOp = "cancelled"

\* a stream of three chunks ended within the ceiling and its image is uploaded
C20_ThreeChunksRead ==
    /\ pc = "upload" /\ netOp = "closed" /\ image.size = 3

(* ---------------------------------------------------------------------- *)
(* Properties of the declared length and of the early gates                *)
(* ---------------------------------------------------------------------- *)
\* the 2xx response being handled declares more bytes than the ceiling
DeclaredOverCeiling == declared.kind = "num" /\ declared.n > MAX_IMAGE_BYTES

\* C21: a 2xx response whose content-length header is present and greater than
\* MAX_IMAGE_BYTES makes fetchImageFromUrl throw the too-large error (413) at
\* once: no read of its body is issued (neither the streaming loop nor
\* arrayBuffer starts), and the test comes before the MIME gate, so the error is
\* the too-large one whatever the content type is
C21_DeclaredLengthRefused ==
    DeclaredOverCeiling =>
        /\ pc = "done"
        /\ failure = TooLargeText
        /\ response = Reply(413, TooLargeText)
        /\ total = 0 /\ chunks = <<>> /\ mimeType = <<>>
        /\ netOp \notin {"cancelled", "closed", "consumed"}
        /\ image = NoImage /\ uploads = 0 /\ storeWrites = 0

\* after one redirect the origin answered 2xx with a declared length one byte
\* over the ceiling, and the handler returned 413
C21_OverlongAfterRedirect ==
    /\ DeclaredOverCeiling /\ declared.n = MAX_IMAGE_BYTES + 1
    /\ pc = "done" /\ response.statusCode = 413
    /\ redirectCount = 1 /\ requests = 2

\* the body was parsed, the honeypot is empty and the gates before the name
\* test were passed
ReachesNameGate == WellFormedPost /\ parsedBodies[event].st = "return" /\ ~event.website

\* the gates before the configuration of the hosting service were passed
ReachesHostingGate ==
    /\ ReachesNameGate /\ event.catName /\ event.humanName
    /\ (parsedBodies[event].hasFile \/ cleanText(event.photoUrl).kind # "empty")

\* one of the early gates refuses the request
EarlyGateRefuses ==
    \/ event.httpMethod # "POST"
    \/ ~event.airtable
    \/ ~event.parseOk
    \/ ~event.catName \/ ~event.humanName
    \/ ~event.cloudinary

\* C22: a request that is not a POST (405), that finds the store configuration
\* missing (500), whose body cannot be parsed (400), that lacks catName or
\* humanName (400) or that finds the hosting configuration missing (500) is
\* answered with that error, and no lookup, no origin request, no upload and no
\* store write was made for it
C22_EarlyGatesHaveNoEffect ==
    EarlyGateRefuses =>
        /\ pc \in {"start", "done"}
        /\ requests = 0 /\ ~resolverUsed /\ uploads = 0 /\ storeWrites = 0
        /\ netOp = "none" /\ timer = "none" /\ record = NoRecord
        /\ pc = "done" =>
             /\ event.httpMethod # "POST" => response = Reply(405, "Method Not Allowed")
             /\ (event.httpMethod = "POST" /\ ~event.airtable) =>
                    response = Reply(500, "Missing Airtable configuration.")
             /\ (event.httpMethod = "POST" /\ event.airtable /\ ~event.parseOk) =>
                    response = Reply(400, "Invalid form payload.")
             /\ (ReachesNameGate /\ (~event.catName \/ ~event.humanName)) =>
                    response = Reply(400, "catName and humanName are required.")
             /\ (ReachesHostingGate /\ ~event.cloudinary) =>
                    response = Reply(500, "Missing Cloudinary configuration.")

\* a submission with a good file found the hosting configuration missing and
\* was answered 500
C22_FileWithoutHostingConfig ==
    /\ pc = "done" /\ ~event.cloudinary /\ parsedBodies[event].hasFile
    /\ response = Reply(500, "Missing Cloudinary configuration.")
    /\ uploads = 0

\* a GET was answered 405
C22_NotAPost ==
    /\ pc = "done" /\ event.httpMethod # "POST" /\ response.statusCode = 405

====
